---- MODULE Spec2Model ----
(***************************************************************************)
(* A model of samwyse/csv2sqlite's argparse extensions:                    *)
(*   - argparse_actions.py: StoreMapping, AppendMapping, ExtendMapping,    *)
(*     argparse actions whose `choices` is a dict from labels to values;   *)
(*   - argparse_csv.py: add_csv_group, which registers the seven flags of  *)
(*     a csv dialect on a parser and returns a group whose get_dialect     *)
(*     builds a csv.Dialect subclass from a parsed Namespace.              *)
(*                                                                         *)
(* Python values are modelled as strings ("None" is None, "4" is the int   *)
(* 4, "True"/"False" the booleans); list objects live in a heap keyed by   *)
(* address so that aliasing is visible; class objects likewise.            *)
(***************************************************************************)
EXTENDS Integers, Sequences, FiniteSets, TLC

VARIABLES
    pc,         \* where the caller is: "idle", "parsing" (mapping actions);
                \* "setup", "parsed", "built", "written" (csv group); "failed"
    err,        \* the exception the last operation raised, or None
    \* ---- argparse_actions.py: one parser with one flag --foo
    mode,       \* the action class --foo was registered with
    mapping,    \* self.mapping of the action
    choices,    \* self.choices of the action (what the parser validates against)
    dflt,       \* the flag's declared default: None or the address of a list
    heap,       \* list objects: address -> sequence of items
    foo,        \* namespace.foo of the parse run in progress (or last finished)
    seen,       \* history: the valid tokens this run has given to --foo, in order
    nocc,       \* history: occurrences of --foo in this run
    last,       \* history: the tokens of the most recent occurrence
    kept,       \* history: the result of some earlier run, as it was returned
    \* ---- argparse_csv.py: one parser with csv groups
    optreg,     \* parser._option_string_actions: option string -> action
    groups,     \* the groups add_csv_group was called for, in order
    ns,         \* the Namespace of the last parse_args: dest -> value
    argv,       \* history: the command line of the last parse_args
    classes,    \* class objects: id -> the class's own attributes
    result,     \* the class get_dialect returned for `ns`, or None
    built,      \* history: the group whose get_dialect returned `result`
    keptd       \* history: some get_dialect call: its Namespace, the class it
                \* returned, the fields that class had, whether get_dialect was
                \* called again since, and whether with another Namespace

mapvars == <<mode, mapping, choices, dflt, heap, foo, seen, nocc, last, kept>>
csvvars == <<optreg, groups, ns, argv, classes, result, built, keptd>>
vars == <<pc, err, mapvars, csvvars>>

None == "None"
KeyError == "KeyError"
UnknownChoice == "UnknownChoice"    \* argparse.ArgumentError: invalid choice

EmptyFun == [x \in {} |-> None]
Restrict(f, S) == [x \in (DOMAIN f) \cap S |-> f[x]]
Range(f) == {f[x] : x \in DOMAIN f}

(***************************************************************************)
(* argparse_actions.py                                                     *)
(***************************************************************************)

\* The dict of the doctests.
adict == ("rock" :> "4") @@ ("paper" :> "5") @@ ("scissors" :> "8")

\* quoting_choices: the csv module's QUOTE_* constants by lower-case name.
QUOTE_MINIMAL == "0"
QUOTE_ALL == "1"
QUOTE_NONNUMERIC == "2"
QUOTE_NONE == "3"
quoting_choices ==
    ("all" :> QUOTE_ALL) @@ ("minimal" :> QUOTE_MINIMAL) @@
    ("none" :> QUOTE_NONE) @@ ("nonnumeric" :> QUOTE_NONNUMERIC)

\* Bounds of the mapping-action model.
MaxTokens == 3      \* tokens one parse run gives to --foo
MaxNargs == 2       \* tokens one occurrence of an nargs='+' flag takes

\* What a command line can hold for a flag bound to m: its labels, and words
\* that are not labels ("4" is a backing value of adict, "1" one of
\* quoting_choices).
Tokens(m) == (DOMAIN m) \cup (IF m = adict THEN {"4"} ELSE {"1", "4"})
TokenSeqs(m, n) == UNION {[1..k -> Tokens(m)] : k \in 1..n}

Addr == {"@1", "@2", "@3", "@4"}
DefaultItems == <<"9">>

\* self.mapping[value]
getitem(m, k) == IF k \in DOMAIN m THEN m[k] ELSE KeyError

\* A faulty variant: the labels handed to the parser are the dict's values.
StoreMapping_init_values(m) == [mapping |-> m, choices |-> Range(m)]

\* StoreMapping.__init__: the parser gets the dict's keys as `choices`, the
\* action keeps the dict as self.mapping.
StoreMapping_init(m) == [mapping |-> m, choices |-> DOMAIN m]

\* argparse's _check_value, which parse_args applies to every token of an
\* occurrence before it calls the action.
check_value(cs, value) == value \in cs

\* A faulty variant: the first occurrence wins.
StoreMapping_call_first(cur, value) ==
    IF getitem(mapping, value) = KeyError THEN [err |-> KeyError, foo |-> cur]
    ELSE IF cur /= None THEN [err |-> None, foo |-> cur]
    ELSE [err |-> None, foo |-> getitem(mapping, value)]

\* StoreMapping.__call__: setattr(namespace, self.dest, self.mapping[value])
StoreMapping_call(cur, value) ==
    IF getitem(mapping, value) = KeyError THEN [err |-> KeyError, foo |-> cur]
    ELSE [err |-> None, foo |-> getitem(mapping, value)]

NewAddr(h) == CHOOSE a \in Addr \ DOMAIN h : TRUE

\* A faulty variant: the list is used as it is, not copied.
copy_items_alias(h, items) ==
    IF items = None THEN [ref |-> NewAddr(h), heap |-> (NewAddr(h) :> <<>>) @@ h]
    ELSE [ref |-> items, heap |-> h]

\* argparse._copy_items: [] for None, a copy of the list otherwise.
copy_items(h, items) ==
    IF items = None THEN [ref |-> NewAddr(h), heap |-> (NewAddr(h) :> <<>>) @@ h]
    ELSE [ref |-> NewAddr(h), heap |-> (NewAddr(h) :> h[items]) @@ h]

\* A faulty variant: the new item goes to the front.
AppendMapping_call_front(h, cur, value) ==
    LET c == copy_items(h, cur)
        v == getitem(mapping, value)
    IN  IF v = KeyError THEN [err |-> KeyError, foo |-> cur, heap |-> h]
        ELSE [err |-> None, foo |-> c.ref,
              heap |-> [c.heap EXCEPT ![c.ref] = <<v>> \o @]]

\* AppendMapping.__call__
AppendMapping_call(h, cur, value) ==
    LET c == copy_items(h, cur)
        v == getitem(mapping, value)
    IN  IF v = KeyError THEN [err |-> KeyError, foo |-> cur, heap |-> h]
        ELSE [err |-> None, foo |-> c.ref,
              heap |-> [c.heap EXCEPT ![c.ref] = Append(@, v)]]

\* A faulty variant: only the first token of the occurrence is taken.
ExtendMapping_call_one(h, cur, values) ==
    LET c == copy_items(h, cur)
        v == getitem(mapping, values[1])
    IN  IF v = KeyError THEN [err |-> KeyError, foo |-> cur, heap |-> h]
        ELSE [err |-> None, foo |-> c.ref,
              heap |-> [c.heap EXCEPT ![c.ref] = Append(@, v)]]

\* ExtendMapping.__call__
ExtendMapping_call(h, cur, values) ==
    LET c == copy_items(h, cur)
        vs == [i \in 1..Len(values) |-> getitem(mapping, values[i])]
    IN  IF \E i \in 1..Len(values) : vs[i] = KeyError
        THEN [err |-> KeyError, foo |-> cur, heap |-> h]
        ELSE [err |-> None, foo |-> c.ref,
              heap |-> [c.heap EXCEPT ![c.ref] = @ \o vs]]

\* The objects still referenced: the default, the kept result, the namespace's.
Live(h, refs) == Restrict(h, refs)

NoKept == [ref |-> None, items |-> <<>>]
NoKeptD == [ref |-> None, ns |-> EmptyFun, snap |-> EmptyFun,
            later |-> FALSE, between |-> FALSE]

IsList(m) == m \in {"AppendMapping", "ExtendMapping"}

\* parser.add_argument('--foo', action=..., choices=..., [nargs='+'], [default=...])
MapInit ==
    /\ pc = "idle" /\ err = None
    /\ \E md \in {"StoreMapping", "AppendMapping", "ExtendMapping"} :
       \E m \in {adict, quoting_choices} :
       \E d \in {None, "@1"} :
          /\ md = "StoreMapping" => d = None
          /\ IsList(md) => m = adict
          /\ mode = md
          /\ mapping = StoreMapping_init(m).mapping
          /\ choices = StoreMapping_init(m).choices
          /\ dflt = d
          /\ heap = IF d = None THEN EmptyFun ELSE (d :> DefaultItems)
    /\ foo = None /\ seen = <<>> /\ nocc = 0 /\ last = <<>> /\ kept = NoKept
    /\ optreg = EmptyFun /\ groups = <<>> /\ ns = EmptyFun /\ argv = <<>>
    /\ classes = EmptyFun /\ result = None /\ built = 0 /\ keptd = NoKeptD

\* parse_args starts: a fresh Namespace whose foo is the flag's default.
ParseBegin ==
    /\ pc \in {"idle", "failed"}
    /\ pc' = "parsing" /\ err' = None
    /\ foo' = dflt /\ seen' = <<>> /\ nocc' = 0 /\ last' = <<>>
    /\ heap' = Live(heap, {dflt, kept.ref})
    /\ UNCHANGED <<mode, mapping, choices, dflt, kept, csvvars>>

\* One occurrence of --foo with the tokens `values`: the parser checks every
\* token against self.choices, then calls the action.
Occurrence(values) ==
    /\ pc = "parsing"
    /\ Len(seen) + Len(values) <= MaxTokens
    /\ nocc' = nocc + 1 /\ last' = values
    /\ IF \E i \in 1..Len(values) : ~check_value(choices, values[i])
       THEN /\ err' = UnknownChoice /\ pc' = "failed"
            /\ UNCHANGED <<foo, heap, seen>>
       ELSE \E r \in {CASE mode = "StoreMapping" ->
                            [heap |-> heap] @@ StoreMapping_call(foo, values[1])
                       [] mode = "AppendMapping" ->
                            AppendMapping_call(heap, foo, values[1])
                       [] OTHER -> ExtendMapping_call(heap, foo, values)} :
                /\ err' = r.err
                /\ pc' = IF r.err = None THEN "parsing" ELSE "failed"
                /\ foo' = r.foo
                /\ heap' = Live(r.heap, {dflt, kept.ref, r.foo})
                /\ seen' = IF r.err = None THEN seen \o values ELSE seen
    /\ UNCHANGED <<mode, mapping, choices, dflt, kept, csvvars>>

\* --foo TOKEN for a flag that takes one token.
OccurOne ==
    /\ mode \in {"StoreMapping", "AppendMapping"}
    /\ \E t \in Tokens(mapping) : Occurrence(<<t>>)

\* --foo TOKEN [TOKEN ...] for the nargs='+' flag.
OccurMany ==
    /\ mode = "ExtendMapping"
    /\ \E ts \in TokenSeqs(mapping, MaxNargs) : Occurrence(ts)

\* parse_args returns the Namespace to the caller, who may keep it.
ParseEnd ==
    /\ pc = "parsing"
    /\ pc' = "idle"
    /\ \E keep \in BOOLEAN :
         kept' = IF keep /\ IsList(mode) /\ foo /= None
                 THEN [ref |-> foo, items |-> heap[foo]]
                 ELSE kept
    /\ heap' = Live(heap, {dflt, kept'.ref, foo})
    /\ UNCHANGED <<err, mode, mapping, choices, dflt, foo, seen, nocc, last, csvvars>>

MapNext == ParseBegin \/ OccurOne \/ OccurMany \/ ParseEnd

SpecMap == MapInit /\ [][MapNext]_vars

(***************************************************************************)
(* Properties of the mapping actions                                       *)
(***************************************************************************)

\* The backing values of a sequence of labels.
Mapped(m, toks) == [i \in 1..Len(toks) |-> m[toks[i]]]

Returned == pc \in {"parsing", "idle"}

\* C4: an occurrence whose tokens are all labels of the choice map stores the
\* backing value (never the label); an occurrence with a token that is not a
\* label, a backing value included, fails with UnknownChoice before anything
\* is translated, and writes neither the destination nor any list.
C4_ChoiceCheckedFirst ==
    [][nocc' = nocc + 1 =>
         IF \A i \in 1..Len(last') : last'[i] \in DOMAIN mapping
         THEN /\ err' = None
              /\ mode = "StoreMapping" =>
                    foo' = mapping[last'[1]] /\ foo' /= last'[1]
              /\ IsList(mode) =>
                    /\ Len(heap'[foo']) >= Len(last')
                    /\ SubSeq(heap'[foo'], Len(heap'[foo']) - Len(last') + 1,
                              Len(heap'[foo'])) = Mapped(mapping, last')
         ELSE /\ err' = UnknownChoice /\ pc' = "failed"
              /\ foo' = foo /\ heap' = heap]_vars

\* C4 witness: a token equal to a backing value was refused.
C4_Witness ==
    /\ mode = "StoreMapping" /\ pc = "failed" /\ err = UnknownChoice
    /\ last /= <<>> /\ last[1] \in Range(mapping)
    /\ seen /= <<>> /\ foo = mapping[seen[Len(seen)]]

\* C5: with StoreMapping, after one or more occurrences with valid labels the
\* destination is the backing value of the last one, a single value.
C5_LastWins ==
    (mode = "StoreMapping" /\ Returned /\ seen /= <<>>) =>
        /\ foo = mapping[seen[Len(seen)]]
        /\ foo \in Range(mapping)
        /\ foo \notin DOMAIN heap

\* C5 witness: a run with two different labels has returned.
C5_Witness ==
    /\ mode = "StoreMapping" /\ pc = "idle" /\ Len(seen) >= 2
    /\ seen[Len(seen) - 1] /= seen[Len(seen)]
    /\ foo = mapping[seen[Len(seen)]]

\* C6: with AppendMapping and no default, the destination is unset before the
\* first occurrence and afterwards the list of the backing values of the
\* tokens in command-line order, one element per occurrence.
C6_AppendInOrder ==
    (mode = "AppendMapping" /\ dflt = None /\ Returned) =>
        IF nocc = 0 THEN foo = None
        ELSE /\ foo \in DOMAIN heap
             /\ heap[foo] = Mapped(mapping, seen)
             /\ Len(heap[foo]) = nocc

\* C6 witness: a run with at least two occurrences, two of them different.
C6_Witness ==
    /\ mode = "AppendMapping" /\ dflt = None /\ pc = "idle" /\ nocc >= 2
    /\ seen[1] /= seen[2] /\ heap[foo] = Mapped(mapping, seen)

\* C7: with ExtendMapping and no default, the destination is the concatenation
\* of the backing values of all tokens, in occurrence order and token order.
C7_ExtendInOrder ==
    (mode = "ExtendMapping" /\ dflt = None /\ Returned) =>
        IF nocc = 0 THEN foo = None
        ELSE /\ foo \in DOMAIN heap
             /\ heap[foo] = Mapped(mapping, seen)

\* C7 witness: two occurrences, one of them with two tokens, all different.
C7_Witness ==
    /\ mode = "ExtendMapping" /\ dflt = None /\ pc = "idle"
    /\ nocc = 2 /\ Len(seen) = 3 /\ Len(last) = 1
    /\ seen[1] /= seen[2] /\ seen[2] /= seen[3] /\ seen[1] /= seen[3]
    /\ heap[foo] = Mapped(mapping, seen)

\* C8: a run's list holds the default's items and then only that run's
\* backing values; the result an earlier run returned is still what it was;
\* the declared default and the choice map are as they were registered.
C8_NoSharedAccumulator ==
    /\ mapping \in {adict, quoting_choices} /\ choices = DOMAIN mapping
    /\ dflt /= None => (dflt \in DOMAIN heap /\ heap[dflt] = DefaultItems)
    /\ kept.ref /= None => (kept.ref \in DOMAIN heap /\ heap[kept.ref] = kept.items)
    /\ (IsList(mode) /\ Returned /\ nocc > 0) =>
          heap[foo] = (IF dflt = None THEN <<>> ELSE DefaultItems)
                        \o Mapped(mapping, seen)

\* C8 witness: a later run with a declared default has returned a list that
\* differs from the kept result of an earlier run.
C8_Witness ==
    /\ IsList(mode) /\ dflt /= None /\ pc = "idle" /\ nocc > 0
    /\ kept.ref /= None /\ Len(kept.items) > 1
    /\ kept.ref /= foo /\ heap[foo] /= kept.items

(***************************************************************************)
(* argparse_csv.py                                                         *)
(***************************************************************************)

AttributeError == "AttributeError"
ArgumentError == "ArgumentError"    \* conflicting option string
InvalidLength == "InvalidLength"    \* ArgumentError: invalid singlechar value
TypeError == "TypeError"
True == "True"
False == "False"

\* str.replace(old, new) for single characters.
RECURSIVE replace(_, _, _)
replace(s, old, new) ==
    IF s = "" THEN ""
    ELSE (IF SubSeq(s, 1, 1) = old THEN new ELSE SubSeq(s, 1, 1))
         \o replace(SubSeq(s, 2, Len(s)), old, new)

\* str.lstrip(ch)
RECURSIVE lstrip(_, _)
lstrip(s, ch) ==
    IF s /= "" /\ SubSeq(s, 1, 1) = ch THEN lstrip(SubSeq(s, 2, Len(s)), ch)
    ELSE s

startswith(s, p) == Len(s) >= Len(p) /\ SubSeq(s, 1, Len(p)) = p

\* singlechar: the string itself if it is one character long.
singlechar(s) == IF Len(s) = 1 THEN s ELSE InvalidLength

\* dialect_attributes: the fields and the add_argument keywords of each.
dialect_attributes == <<
    [name |-> "delimiter", kwds |-> "is_char"],
    [name |-> "quotechar", kwds |-> "is_char"],
    [name |-> "escapechar", kwds |-> "is_char"],
    [name |-> "doublequote", kwds |-> "is_bool"],
    [name |-> "skipinitialspace", kwds |-> "is_bool"],
    [name |-> "lineterminator", kwds |-> "str"],
    [name |-> "quoting", kwds |-> "quoting"] >>

Keys == {dialect_attributes[i].name : i \in DOMAIN dialect_attributes}

\* add_csv_group's two prefixes.
arg_prefix(prefix) == IF prefix \in {None, ""} THEN "--" ELSE "--" \o prefix \o "-"
attr_prefix(prefix) == IF prefix \in {None, ""} THEN "" ELSE prefix \o "_"

\* The option strings one add_argument registers: is_bool is
\* argparse.BooleanOptionalAction, which adds '--no-' + option_string[2:].
option_strings(opt, kwds) ==
    IF kwds = "is_bool" THEN {opt, "--no-" \o SubSeq(opt, 3, Len(opt))} ELSE {opt}

\* The dest argparse derives from a long option string.
dest_of(opt) == replace(lstrip(opt, "-"), "-", "_")

\* group.add_argument(opt, **kwds) on the parser's registry: an option string
\* already registered is an ArgumentError and nothing is added.
add_argument(reg, opt, kwds) ==
    IF option_strings(opt, kwds) \cap DOMAIN reg.actions /= {}
    THEN [reg EXCEPT !.err = ArgumentError]
    ELSE [reg EXCEPT !.actions =
            [o \in option_strings(opt, kwds) |->
                [dest |-> dest_of(opt), kwds |-> kwds]] @@ @]

\* The loop of add_csv_group from field i on: the first error ends it.
RECURSIVE add_arguments(_, _, _)
add_arguments(reg, prefix, i) ==
    IF i > Len(dialect_attributes) \/ reg.err /= None THEN reg
    ELSE add_arguments(
            add_argument(reg, arg_prefix(prefix) \o dialect_attributes[i].name,
                         dialect_attributes[i].kwds),
            prefix, i + 1)

add_csv_group(actions, prefix) ==
    add_arguments([actions |-> actions, err |-> None], prefix, 1)

\* What one occurrence of a flag stores: [err, value].
convert(act, arg) ==
    CASE act.kwds = "is_char" ->
            IF singlechar(arg.tok) = InvalidLength
            THEN [err |-> InvalidLength, value |-> None]
            ELSE [err |-> None, value |-> singlechar(arg.tok)]
      [] act.kwds = "is_bool" ->
            [err |-> None,
             value |-> IF startswith(arg.opt, "--no-") THEN False ELSE True]
      [] act.kwds = "quoting" ->
            IF ~check_value(choices, arg.tok)
            THEN [err |-> UnknownChoice, value |-> None]
            ELSE [err |-> StoreMapping_call(None, arg.tok).err,
                  value |-> StoreMapping_call(None, arg.tok).foo]
      [] OTHER -> [err |-> None, value |-> arg.tok]

\* parser.parse_args(args): every dest starts at its default, None; each
\* occurrence then stores its value; the first error ends the parse.
RECURSIVE parse_occurrences(_, _, _)
parse_occurrences(reg, n, args) ==
    IF args = <<>> THEN [err |-> None, ns |-> n]
    ELSE LET act == reg[Head(args).opt]
             v == convert(act, Head(args))
         IN  IF v.err /= None THEN [err |-> v.err, ns |-> n]
             ELSE parse_occurrences(reg, [n EXCEPT ![act.dest] = v.value], Tail(args))

parse_args(reg, args) ==
    parse_occurrences(reg, [d \in {reg[o].dest : o \in DOMAIN reg} |-> None], args)

\* csv.Dialect, the base class: every field is None.
Base == "csv.Dialect"
csv_Dialect == [k \in Keys |-> None]
ClassIds == {"dialect#1", "dialect#2", "dialect#3"}

\* A faulty variant: the class body also declares the usual quote character.
dialect_body_quotechar ==
    ("lineterminator" :> "\r\n") @@ ("quoting" :> QUOTE_NONE) @@ ("quotechar" :> "\"")

\* The body of `class dialect(csv.Dialect)`.
dialect_body == ("lineterminator" :> "\r\n") @@ ("quoting" :> QUOTE_NONE)

\* A faulty variant: one class for all calls, made by the first.
class_dialect_shared(cls) ==
    IF \E c \in ClassIds : c \in DOMAIN cls
    THEN [ref |-> CHOOSE c \in ClassIds : c \in DOMAIN cls, classes |-> cls]
    ELSE [ref |-> "dialect#1", classes |-> ("dialect#1" :> dialect_body) @@ cls]

\* The class statement in get_dialect: a new class on every call.
class_dialect(cls) ==
    LET c == CHOOSE c \in ClassIds : c \notin DOMAIN cls
    IN  [ref |-> c, classes |-> (c :> dialect_body) @@ cls]

\* getattr(cls[c], key): the class's own attribute, else csv.Dialect's.
getattr(cls, c, key) == IF key \in DOMAIN cls[c] THEN cls[c][key] ELSE cls[Base][key]

\* The seven fields of a class, as a consumer reads them.
Fields(cls, c) == [k \in Keys |-> getattr(cls, c, k)]

\* A faulty variant: `if attr_value:`
is_not_None_truthy(v) == v \notin {None, "", False, "0"}

\* `attr_value is not None`
is_not_None(v) == v /= None

\* The loop of get_dialect from field i on: a name the Namespace lacks is an
\* AttributeError.
RECURSIVE set_attributes(_, _, _, _, _)
set_attributes(cls, c, n, apfx, i) ==
    IF i > Len(dialect_attributes) THEN [err |-> None, ref |-> c, classes |-> cls]
    ELSE LET key == dialect_attributes[i].name
             attr_name == apfx \o key
         IN  IF attr_name \notin DOMAIN n
             THEN [err |-> AttributeError, ref |-> None, classes |-> cls]
             ELSE set_attributes(
                    IF is_not_None(n[attr_name])
                    THEN [cls EXCEPT ![c] = (key :> n[attr_name]) @@ @]
                    ELSE cls,
                    c, n, apfx, i + 1)

get_dialect(cls, n, apfx) ==
    set_attributes(class_dialect(cls).classes, class_dialect(cls).ref, n, apfx, 1)

\* csv.writer(f, dialect=d), as the module doctest shows it: a dialect that
\* enables quoting without a quotechar is a TypeError (so is one without a
\* delimiter).
csv_writer(cls, c) ==
    IF getattr(cls, c, "delimiter") = None THEN TypeError
    ELSE IF getattr(cls, c, "quoting") /= QUOTE_NONE /\ getattr(cls, c, "quotechar") = None
    THEN TypeError
    ELSE None

\* Bounds of the registration model.
MaxGroups == 2      \* calls of add_csv_group on the parser
MaxArgs == 2        \* flag occurrences on one command line

Prefixes == {None, "in", "no", "a-b", "a_b"}

\* The tokens tried for a flag of each kind.
TokensFor(kwds) ==
    CASE kwds = "is_char" -> {"/", "ab"}
      [] kwds = "is_bool" -> {""}
      [] kwds = "quoting" -> {"all", "none", "1"}
      [] OTHER -> {""}

Occurrences(reg) ==
    UNION {{[opt |-> o, tok |-> t] : t \in TokensFor(reg[o].kwds)} : o \in DOMAIN reg}

ShortArgvs(reg) == UNION {[1..k -> Occurrences(reg)] : k \in 0..MaxArgs}

\* The command lines of the dialect model: each flag of the unprefixed group
\* at most once, in the order of dialect_attributes.
FieldArgs(i) ==
    LET name == dialect_attributes[i].name
    IN  CASE name = "delimiter" -> {<<>>, <<[opt |-> "--delimiter", tok |-> "/"]>>}
          [] name = "quotechar" -> {<<>>, <<[opt |-> "--quotechar", tok |-> "="]>>}
          [] name = "escapechar" -> {<<>>, <<[opt |-> "--escapechar", tok |-> "\\"]>>}
          [] name = "doublequote" ->
                {<<>>, <<[opt |-> "--doublequote", tok |-> ""]>>,
                 <<[opt |-> "--no-doublequote", tok |-> ""]>>}
          [] name = "skipinitialspace" ->
                {<<>>, <<[opt |-> "--skipinitialspace", tok |-> ""]>>}
          [] name = "lineterminator" ->
                {<<>>, <<[opt |-> "--lineterminator", tok |-> ""]>>}
          [] OTHER ->
                {<<>>, <<[opt |-> "--quoting", tok |-> "minimal"]>>,
                 <<[opt |-> "--quoting", tok |-> "all"]>>,
                 <<[opt |-> "--quoting", tok |-> "none"]>>}

RECURSIVE FullArgvs(_)
FullArgvs(i) ==
    IF i > Len(dialect_attributes) THEN {<<>>}
    ELSE {a \o rest : a \in FieldArgs(i), rest \in FullArgvs(i + 1)}

\* The state both csv models start from: a parser with no csv group yet.
CsvStart ==
    /\ err = None
    /\ mode = "StoreMapping"
    /\ mapping = StoreMapping_init(quoting_choices).mapping
    /\ choices = StoreMapping_init(quoting_choices).choices
    /\ dflt = None /\ heap = EmptyFun /\ foo = None
    /\ seen = <<>> /\ nocc = 0 /\ last = <<>> /\ kept = NoKept
    /\ ns = EmptyFun /\ argv = <<>>
    /\ classes = (Base :> csv_Dialect) /\ result = None /\ built = 0
    /\ keptd = NoKeptD

NamesInit ==
    /\ CsvStart /\ pc = "setup"
    /\ optreg = EmptyFun /\ groups = <<>>

\* parser.add_csv_group(prefix=prefix)
AddCsvGroup ==
    /\ pc = "setup" /\ Len(groups) < MaxGroups
    /\ \E prefix \in Prefixes :
         \E r \in {add_csv_group(optreg, prefix)} :
             /\ optreg' = r.actions
             /\ err' = r.err
             /\ pc' = IF r.err = None THEN "setup" ELSE "failed"
             /\ groups' = Append(groups, [prefix |-> prefix, ok |-> r.err = None])
    /\ UNCHANGED <<mapvars, ns, argv, classes, result, built, keptd>>

\* ns = parser.parse_args(args)
ParseArgs(args) ==
    /\ pc \in {"setup", "parsed", "built", "written"} /\ Len(groups) > 0
    /\ \E r \in {parse_args(optreg, args)} :
           /\ err' = r.err
           /\ pc' = IF r.err = None THEN "parsed" ELSE "failed"
           /\ ns' = IF r.err = None THEN r.ns ELSE EmptyFun
    /\ argv' = args
    /\ result' = None /\ built' = 0
    /\ classes' = Restrict(classes, {Base, keptd.ref})
    /\ UNCHANGED <<mapvars, optreg, groups, keptd>>

\* csv_group.get_dialect(ns) for the g-th group; the caller may keep the class.
GetDialect(g, keep) ==
    /\ pc \in {"parsed", "built", "written"}
    /\ g \in 1..Len(groups) /\ groups[g].ok
    /\ \E r \in {get_dialect(classes, ns, attr_prefix(groups[g].prefix))} :
           /\ err' = r.err
           /\ pc' = IF r.err = None THEN "built" ELSE "failed"
           /\ result' = r.ref
           /\ keptd' = IF keep /\ r.err = None
                       THEN [ref |-> r.ref, ns |-> ns, snap |-> Fields(r.classes, r.ref),
                             later |-> FALSE, between |-> FALSE]
                       ELSE IF keptd.ref = None THEN keptd
                       ELSE [keptd EXCEPT !.later = TRUE,
                                          !.between = @ \/ ns /= keptd.ns]
           /\ classes' = Restrict(r.classes, {Base, r.ref, keptd'.ref})
    /\ built' = g
    /\ UNCHANGED <<mapvars, optreg, groups, ns, argv>>

\* csv.writer(sys.stdout, dialect=argparser_dialect)
CsvWriter ==
    /\ pc = "built"
    /\ err' = csv_writer(classes, result)
    /\ pc' = "written"
    /\ UNCHANGED <<mapvars, csvvars>>

\* The registration model parses one command line, once the groups are added.
NamesParse == pc = "setup" /\ \E args \in ShortArgvs(optreg) : ParseArgs(args)
NamesBuild == \E g \in 1..MaxGroups : GetDialect(g, FALSE)

NamesNext == AddCsvGroup \/ NamesParse \/ NamesBuild

SpecNames == NamesInit /\ [][NamesNext]_vars

\* The parser of the module doctest: one csv group, no prefix.
DialectInit ==
    /\ CsvStart /\ pc = "setup"
    /\ optreg = add_csv_group(EmptyFun, None).actions
    /\ groups = <<[prefix |-> None, ok |-> TRUE]>>

AllArgvs == FullArgvs(1)

DialectParse == \E args \in AllArgvs : ParseArgs(args)
DialectBuild == GetDialect(1, FALSE)

DialectNext == DialectParse \/ DialectBuild \/ CsvWriter

SpecDialect == DialectInit /\ [][DialectNext]_vars

\* Repeated construction: command lines of at most MaxFlags flags, any number
\* of parse_args and get_dialect calls, the caller keeping any one result.
MaxFlags == 1
FewArgvs == {a \in AllArgvs : Len(a) <= MaxFlags}

RepeatParse == \E args \in FewArgvs : ParseArgs(args)
RepeatBuild == \E keep \in BOOLEAN : GetDialect(1, keep)

RepeatNext == RepeatParse \/ RepeatBuild \/ CsvWriter

SpecRepeat == DialectInit /\ [][RepeatNext]_vars

(***************************************************************************)
(* Properties of the csv group                                             *)
(***************************************************************************)

\* The quoting mode resolves to something other than 'none' while quotechar
\* and escapechar are both unset.
QuotingWithoutChars(n) ==
    /\ n["quoting"] \notin {None, QUOTE_NONE}
    /\ n["quotechar"] = None /\ n["escapechar"] = None

\* C1, as claimed: get_dialect, given a namespace whose quoting resolves to a
\* mode other than 'none' with quotechar and escapechar unset, fails with
\* MissingRequiredField and returns no dialect.
C1_FailsAtConstruction ==
    (built = 1 /\ QuotingWithoutChars(ns)) =>
        (err = "MissingRequiredField" /\ result = None)

\* C1, amended: for such a namespace get_dialect raises nothing and returns a
\* dialect that carries the quoting mode as given and no quotechar or
\* escapechar; the failure is the TypeError of csv.writer, when the dialect is
\* handed to it.
C1_FailsAtConsumer ==
    (built = 1 /\ QuotingWithoutChars(ns)) =>
        /\ result \in DOMAIN classes
        /\ getattr(classes, result, "quoting") = ns["quoting"]
        /\ getattr(classes, result, "quotechar") = None
        /\ getattr(classes, result, "escapechar") = None
        /\ pc = "built" => err = None
        /\ pc = "written" => err = TypeError

\* C1 witness: the doctest's `--delimiter / --quoting all`, built and then
\* refused by csv.writer.
C1_Witness ==
    /\ pc = "written" /\ err = TypeError /\ built = 1
    /\ ns["delimiter"] = "/" /\ ns["quoting"] = QUOTE_ALL
    /\ QuotingWithoutChars(ns)

\* C3: every field of the dialect is the namespace's value when that is not
\* None (an empty string and False count as supplied), else the class body's
\* default (lineterminator '\r\n', quoting QUOTE_NONE), else unset; each field
\* is resolved from its own namespace value alone.
C3_FieldResolution ==
    (built = 1 /\ result /= None) =>
        \A k \in Keys :
            getattr(classes, result, k) =
                IF ns[k] /= None THEN ns[k]
                ELSE IF k = "lineterminator" THEN "\r\n"
                ELSE IF k = "quoting" THEN QUOTE_NONE
                ELSE None

\* C3 witness: an empty line terminator and an explicit False were supplied,
\* delimiter and quoting were not.
C3_Witness ==
    /\ pc = "built" /\ built = 1 /\ result /= None
    /\ ns["lineterminator"] = "" /\ ns["doublequote"] = False
    /\ ns["delimiter"] = None /\ ns["quoting"] = None
    /\ getattr(classes, result, "lineterminator") = ""
    /\ getattr(classes, result, "doublequote") = False
    /\ getattr(classes, result, "quoting") = QUOTE_NONE

\* C9: a dialect get_dialect returned keeps the fields it had, whatever is
\* built later; a later call returns another object; and a later call given
\* the same namespace returns a dialect with the same fields.
C9_Idempotent ==
    /\ keptd.ref /= None =>
          (keptd.ref \in DOMAIN classes /\ Fields(classes, keptd.ref) = keptd.snap)
    /\ (keptd.later /\ result /= None) => result /= keptd.ref
    /\ (keptd.ref /= None /\ result /= None /\ keptd.ns = ns) =>
          Fields(classes, result) = keptd.snap

\* C9 witness: two calls with the same namespace, one that supplies a value,
\* and a call with another namespace since the first.
C9_Witness ==
    /\ pc = "built" /\ keptd.ref /= None /\ keptd.later /\ keptd.between
    /\ keptd.ns = ns /\ \E k \in Keys : ns[k] /= None
    /\ result /= keptd.ref /\ Fields(classes, result) = keptd.snap

\* C2, as claimed: for a registered group, the name get_dialect reads for each
\* field is the dest of the flag add_csv_group registered for it, and
\* get_dialect never fails on a missing attribute.
C2_NamesAgree ==
    built > 0 =>
        /\ \A k \in Keys :
              /\ arg_prefix(groups[built].prefix) \o k \in DOMAIN optreg
              /\ optreg[arg_prefix(groups[built].prefix) \o k].dest
                    = attr_prefix(groups[built].prefix) \o k
        /\ err /= AttributeError

\* The occurrences of a command line that carry flags of the g-th group.
OwnFlags(g) ==
    UNION {option_strings(arg_prefix(groups[g].prefix) \o dialect_attributes[i].name,
                          dialect_attributes[i].kwds) : i \in DOMAIN dialect_attributes}
IsOwn(g, arg) == arg.opt \in OwnFlags(g)
OwnArgs(g, args) ==
    LET idx == {i \in 1..Len(args) : IsOwn(g, args[i])}
        F[i \in 0..Len(args)] ==
            IF i = 0 THEN <<>>
            ELSE IF i \in idx THEN Append(F[i - 1], args[i]) ELSE F[i - 1]
    IN  F[Len(args)]

\* C10, as claimed: two groups registered with different prefixes both
\* register without a conflict, and the dialect a group builds is the one it
\* would build from the command line's own-prefix flags alone.
C10_GroupsIndependent ==
    (Len(groups) = 2 /\ groups[1].prefix /= groups[2].prefix) =>
        /\ groups[1].ok /\ groups[2].ok
        /\ (pc = "built" /\ built > 0) =>
              Fields(classes, result) =
                LET own == get_dialect((Base :> csv_Dialect),
                                       parse_args(optreg, OwnArgs(built, argv)).ns,
                                       attr_prefix(groups[built].prefix))
                IN  Fields(own.classes, own.ref)

====
